---- MODULE Spec2Model ----
(***************************************************************************)
(* Model of the lokaalbeslist subscription service (src/queries.js,        *)
(* src/helpers.js, src/app.js): filters, constraints and subscribers kept  *)
(* as facts of a triple store that is reached by asynchronous round trips. *)
(*                                                                         *)
(* A term is a triple <<kind, n, s>>: a URI of a resource is               *)
(* <<"constraints" | "filters" | "list" | "users", id, "">>, a literal or  *)
(* a vocabulary term carries its text in s.  A fact is <<s, p, o>> with    *)
(* the predicate p a string.                                               *)
(***************************************************************************)
EXTENDS Integers, Sequences, FiniteSets, TLC

VARIABLES
    store,      \* the facts of the triple store (all graphs but the mail graph)
    mailbox,    \* the mails inserted into the system/email graph: <<email, token>>
    uuidCtr,    \* the number of uuid() values handed out so far
    cf,         \* per caller: the createFilter call it has in flight
    rp,         \* per caller: the position of its replace (delete, then create)
    rd,         \* the reader: the last findFilter call and what it returned
    sub,        \* per caller: the addSubscription call it has in flight
    net,        \* store updates of addSubscription still on their way
    post,       \* the POST /subscription-filters handler of the first app.js
    cc,         \* the last createConstraint call and how it settled
    codec,      \* a sequence, the chain written for it and what was decoded
    lastReq     \* the last delete or listing request and how it was answered

vars == <<store, mailbox, uuidCtr, cf, rp, rd, sub, net, post, cc, codec, lastReq>>

----------------------------------------------------------------------------
(* Bounds of the model *)

MaxUuid == 2
MaxConstraint == 2
MaxFilter == 2
MaxEmail == 2

ConstraintIds == 1..MaxConstraint
FilterIds == 1..MaxFilter
Emails == 1..MaxEmail
Callers == {1, 2}

----------------------------------------------------------------------------
(* Terms *)

constraintURI(id) == <<"constraints", id, "">>
filterURI(id) == <<"filters", id, "">>
userURI(u) == <<"users", u, "">>
listURI(u) == <<"list", u, "">>
Lit(s) == <<"lit", 0, s>>
Term(s) == <<"term", 0, s>>
RdfNil == Term("rdf:nil")
ShAnd == "sh:and"
ShOr == "sh:or"
\* what the template literal `${items[items.length-1]}` prints for a missing item
Undefined == Term("undefined")

\* the last path segment of a URI: uri.split('/')[length - 1]
IdOf(uri) == uri[2]

----------------------------------------------------------------------------
(* The store: SPARQL updates and the patterns the code queries *)

Objects(s, p) == {t[3] : t \in {x \in store : x[1] = s /\ x[2] = p}}

\* a text with the token undefined in a term position does not parse:
\* the store rejects the whole update and changes nothing
Parses(facts) == \A t \in facts : t[1] /= Undefined /\ t[3] /= Undefined

\* a delete that also removes the facts that point to the resource
deleteSubjectCascade(uri) == {t \in store : t[1] /= uri /\ t[3] /= uri}

\* DELETE WHERE { <uri> ?p ?o }
deleteSubject(uri) == {t \in store : t[1] /= uri}

----------------------------------------------------------------------------
(* Ordered-sequence codec *)

\* a createListQuery that names its nodes from the first uuid() value on,
\* whatever has been drawn before
createListQueryOnOldNodes(u, items) ==
    LET n == IF Len(items) = 0 THEN 1 ELSE Len(items)
        item(k) == IF k <= Len(items) THEN items[k] ELSE Undefined
        rest(k) == IF k < n THEN listURI(k + 1) ELSE RdfNil
    IN  [root  |-> listURI(1),
         used  |-> n,
         facts |-> UNION {{<<listURI(k), "rdf:first", item(k)>>,
                           <<listURI(k), "rdf:rest", rest(k)>>} : k \in 1..n}]

\* createListQuery(items) with uuid() having been called u times before:
\* one fresh node for the head, one more per further item; the last node
\* holds items[items.length-1], which for an empty array prints undefined.
createListQuery(u, items) ==
    LET n == IF Len(items) = 0 THEN 1 ELSE Len(items)
        item(k) == IF k <= Len(items) THEN items[k] ELSE Undefined
        rest(k) == IF k < n THEN listURI(u + k + 1) ELSE RdfNil
    IN  [root  |-> listURI(u + 1),
         used  |-> n,
         facts |-> UNION {{<<listURI(u + k), "rdf:first", item(k)>>,
                           <<listURI(u + k), "rdf:rest", rest(k)>>} : k \in 1..n}]

\* the nodes that rdf:rest* reaches from the nodes of S
RECURSIVE RestClosure(_)
RestClosure(S) ==
    LET next == S \cup UNION {Objects(n, "rdf:rest") : n \in S}
    IN  IF next = S THEN S ELSE RestClosure(next)

\* the solutions of a query that leaves out the BIND of the filter: the
\* members of the lists of every node with the combinator
SolutionsOfAnyFilter(uri, andOr) ==
    UNION {UNION {{<<t[3], n, c>> : c \in Objects(n, "rdf:first")}
                  : n \in RestClosure({t[3]})}
           : t \in {x \in store : x[2] = andOr}}

\* the solutions of  <uri> andOr ?list . ?list rdf:rest*/rdf:first ?constraint
\* as <<list, node, constraint>>: one per chain member
Solutions(uri, andOr) ==
    UNION {UNION {{<<l, n, c>> : c \in Objects(n, "rdf:first")}
                  : n \in RestClosure({l})}
           : l \in Objects(uri, andOr)}

\* every order in which the members of a finite set can be listed
RECURSIVE Orderings(_)
Orderings(S) ==
    IF S = {} THEN {<<>>}
    ELSE UNION {{<<x>> \o p : p \in Orderings(S \ {x})} : x \in S}

\* GROUP_CONCAT(?constraint; separator=",") then .split(','): SPARQL fixes no
\* order for the members of a group, the store lists them in any order
GroupConcat(sols) ==
    {[i \in 1..Len(o) |-> o[i][3]] : o \in Orderings(sols)}

\* every way to pick one member from each set of a sequence of sets
RECURSIVE SeqChoices(_)
SeqChoices(sets) ==
    IF sets = <<>> THEN {<<>>}
    ELSE {<<x>> \o r : x \in Head(sets), r \in SeqChoices(Tail(sets))}

----------------------------------------------------------------------------
(* Field/operator mapper *)

\* a mapSubject whose switch ends in a default that maps to the title
mapSubjectWithDefault(u, subject) ==
    IF subject \in {"description", "sessionLocation", "sessionDate",
                    "governanceArea"}
    THEN [ok |-> TRUE, path |-> Term("terms:description"), used |-> 0,
          facts |-> {}]
    ELSE [ok |-> TRUE, path |-> Term("terms:title"), used |-> 0, facts |-> {}]

\* mapSubject(subject) with uuid() having been called u times before: the
\* path term, the facts of a multi-hop path and the uuids consumed;
\* ok = FALSE stands for the switch falling through (undefined)
mapSubject(u, subject) ==
    LET single(t) == [ok |-> TRUE, path |-> Term(t), used |-> 0, facts |-> {}]
        list(items) ==
            LET l == createListQuery(u, items)
            IN  [ok |-> TRUE, path |-> l.root, used |-> l.used, facts |-> l.facts]
    IN  CASE subject = "title" -> single("terms:title")
          [] subject = "description" -> single("terms:description")
          [] subject = "sessionLocation" ->
                list(<<Term("ext:zitting"), Term("prov:atLocation")>>)
          [] subject = "sessionDate" ->
                list(<<Term("ext:zitting"), Term("prov:startedAtTime")>>)
          [] subject = "governanceArea" ->
                list(<<Term("ext:zitting"), Term("besluit:isGehoudenDoor"),
                       Term("besluit:bestuurt"), Term("skos:prefLabel")>>)
          [] OTHER -> [ok |-> FALSE, path |-> Undefined, used |-> 0, facts |-> {}]

\* mapPredicateObject(predicate, object): the predicate/object pairs of the
\* SHACL fragment; {} stands for the switch falling through (undefined)
mapPredicateObject(predicate, object) ==
    CASE predicate \in {"textEquals", "governanceAreaEquals"} ->
            {<<"sh:pattern", <<"pattern", 1, object>>>>, <<"sh:flags", Lit("i")>>}
      [] predicate = "textContains" ->
            {<<"sh:pattern", <<"pattern", 0, object>>>>, <<"sh:flags", Lit("i")>>}
      [] predicate = "exists" -> {<<"sh:minCount", <<"int", 1, "">>>>}
      [] predicate = "notExists" -> {<<"sh:maxCount", <<"int", 0, "">>>>}
      [] OTHER -> {}

----------------------------------------------------------------------------
(* Reads *)

NoConstraint ==
    [found |-> FALSE, id |-> 0, subject |-> "", predicate |-> "", object |-> ""]

\* findConstraint(uri): every value it can return; bindings[0] is whichever
\* row the store lists first
findConstraint(uri) ==
    LET rows == Objects(uri, "ext:constraintSubject")
                \X Objects(uri, "ext:constraintPredicate")
                \X Objects(uri, "ext:constraintObject")
    IN  IF rows = {} THEN {NoConstraint}
        ELSE {[found |-> TRUE, id |-> IdOf(uri), subject |-> r[1][3],
               predicate |-> r[2][3], object |-> r[3][3]] : r \in rows}

NotFound ==
    [found |-> FALSE, diverges |-> FALSE, id |-> 0, requireAll |-> FALSE,
     constraints |-> <<>>, subFilters |-> <<>>]
\* the recursion of findFilter re-enters a filter it is already loading
Diverges ==
    [found |-> FALSE, diverges |-> TRUE, id |-> 0, requireAll |-> FALSE,
     constraints |-> <<>>, subFilters |-> <<>>]

IsFound(x) == x.found

\* findFilter(uri): every value it can return.  depth counts the filters
\* that may still be entered: a path of more than MaxFilter found filters
\* repeats one, and the recursion never ends.
RECURSIVE findFilter(_, _)
findFilter(uri, depth) ==
    LET groups == {a \in {ShAnd, ShOr} : Solutions(uri, a) /= {}}
        load(a, children) ==
            LET cs == SeqChoices([i \in 1..Len(children) |->
                                  findConstraint(children[i])])
                fs == SeqChoices([i \in 1..Len(children) |->
                                  findFilter(children[i], depth - 1)])
            IN  {IF \E i \in 1..Len(f) : f[i].diverges THEN Diverges
                 ELSE [found |-> TRUE, diverges |-> FALSE, id |-> IdOf(uri),
                       requireAll |-> (a = ShAnd),
                       constraints |-> SelectSeq(c, IsFound),
                       subFilters |-> SelectSeq(f, IsFound)]
                 : c \in cs, f \in fs}
    IN  IF groups = {} THEN {NotFound}
        ELSE IF depth = 0 THEN {Diverges}
        ELSE UNION {UNION {load(a, ch) : ch \in GroupConcat(Solutions(uri, a))}
                    : a \in groups}

\* the identifiers of the children of a loaded tree: constraints, then sub-filters
ChildIds(tree) ==
    [i \in 1..Len(tree.constraints) |-> tree.constraints[i].id]
    \o [i \in 1..Len(tree.subFilters) |-> tree.subFilters[i].id]

\* verifyConstraint(constraint) for a reference [type, id]
verifyConstraint(ref) ==
    /\ ref.type = "subscription-filter-constraints"
    /\ Objects(constraintURI(ref.id), "sh:path") /= {}

\* an existsFilter that asks whether the store holds any filter at all
existsFilterAnyShape(uri) ==
    \E t \in store : /\ t[2] = "rdf:type" /\ t[3] = Term("sh:NodeShape")
                     /\ <<t[1], "sh:targetClass", Term("besluit:Agendapunt")>>
                            \in store

\* existsFilter(uri)
existsFilter(uri) ==
    /\ <<uri, "rdf:type", Term("sh:NodeShape")>> \in store
    /\ <<uri, "sh:targetClass", Term("besluit:Agendapunt")>> \in store

\* verifyFilter(subFilter) for a reference [type, id]: the reference names a
\* filter that has a combinator edge
verifyFilter(ref) ==
    /\ ref.type = "subscription-filters"
    /\ Objects(filterURI(ref.id), ShAnd) \cup Objects(filterURI(ref.id), ShOr) /= {}

----------------------------------------------------------------------------
(* Inputs *)

TypeConstraint == "subscription-filter-constraints"
TypeFilter == "subscription-filters"

\* references as the request body carries them; the last constraint
\* reference has the type of the other relationship
ConstraintRefs ==
    {[type |-> TypeConstraint, id |-> i] : i \in ConstraintIds}
    \cup {[type |-> TypeFilter, id |-> 1]}
SubFilterRefs ==
    {[type |-> TypeFilter, id |-> i] : i \in FilterIds}

MaxRefs == 2
MaxSubRefs == 1

SeqsUpTo(S, n) == UNION {[1..k -> S] : k \in 0..n}

Subjects == {"title", "colour"}
Predicates == {"exists", "smells"}
ObjectValues == {"station"}

----------------------------------------------------------------------------
(* createFilter: the call, the answers of the store, the settling *)

NoError == [kind |-> "", ids |-> <<>>]

IdleCall ==
    [phase |-> "idle", uri |-> filterURI(0), requireAll |-> FALSE,
     constraints |-> <<>>, subFilters |-> <<>>, askC |-> <<>>, askF |-> <<>>,
     update |-> "none", facts |-> {}, outcome |-> "pending", error |-> NoError,
     before |-> {}, invalid |-> {}]

\* nothing of the call is on its way any more
Drained(c) ==
    /\ \A i \in 1..Len(c.askC) : c.askC[i] /= "?"
    /\ \A i \in 1..Len(c.askF) : c.askF[i] /= "?"
    /\ c.update /= "pending"

IdsWhere(refs, ask, v) ==
    LET idx == SelectSeq([i \in 1..Len(refs) |-> i], LAMBDA i : ask[i] = v)
    IN  [k \in 1..Len(idx) |-> refs[idx[k]].id]

\* the .then of a Promise.all over the verifications of one relationship:
\* once every answer is in, reject with the invalid ids; a promise that has
\* settled stays as it is
Validated(c, kind, refs, ask) ==
    IF /\ c.outcome = "pending"
       /\ \A i \in 1..Len(ask) : ask[i] /= "?"
       /\ \E i \in 1..Len(ask) : ask[i] = "F"
    THEN [c EXCEPT !.outcome = "rejected",
                   !.error = [kind |-> kind, ids |-> IdsWhere(refs, ask, "F")]]
    ELSE c

\* the requirements array: constraint URIs, then sub-filter URIs
Requirements(constraints, subFilters) ==
    [i \in 1..Len(constraints) |-> constraintURI(constraints[i].id)]
    \o [i \in 1..Len(subFilters) |-> filterURI(subFilters[i].id)]

AndOr(requireAll) == IF requireAll THEN ShAnd ELSE ShOr

\* an insert of the type and combinator facts that leaves the chain to a
\* later update
FilterFactsWithoutChain(uri, requireAll, list) ==
    {<<uri, "rdf:type", Term("sh:NodeShape")>>,
     <<uri, "sh:targetClass", Term("besluit:Agendapunt")>>,
     <<uri, AndOr(requireAll), list.root>>}

\* the INSERT DATA of createFilter
FilterFacts(uri, requireAll, list) ==
    {<<uri, "rdf:type", Term("sh:NodeShape")>>,
     <<uri, "sh:targetClass", Term("besluit:Agendapunt")>>,
     <<uri, AndOr(requireAll), list.root>>} \cup list.facts

\* the list nodes createFilter makes for its requirements
ListUsed(constraints, subFilters) ==
    IF Requirements(constraints, subFilters) = <<>> THEN 0
    ELSE createListQuery(0, Requirements(constraints, subFilters)).used

\* createFilter(filterUri, requireAll, constraints, subFilters) up to its
\* first suspension: the verifications are sent, and, promises being empty,
\* the insert is sent in the same turn without waiting for them.  A
\* reference of the wrong type is answered without a query.  An absent
\* relationship behaves as an empty one.  u is the number of uuid() values
\* drawn so far.
createFilterCall(u, uri, requireAll, constraints, subFilters) ==
    LET req == Requirements(constraints, subFilters)
        list == createListQuery(u, req)
        askC == [i \in 1..Len(constraints) |->
                    IF constraints[i].type = TypeConstraint THEN "?" ELSE "F"]
        askF == [i \in 1..Len(subFilters) |->
                    IF subFilters[i].type = TypeFilter THEN "?" ELSE "F"]
        c0 == [phase |-> "called", uri |-> uri, requireAll |-> requireAll,
               constraints |-> constraints, subFilters |-> subFilters,
               askC |-> askC, askF |-> askF,
               update |-> IF req = <<>> THEN "none" ELSE "pending",
               facts |-> IF req = <<>> THEN {}
                         ELSE FilterFacts(uri, requireAll, list),
               outcome |-> "pending", error |-> NoError,
               before |-> store,
               invalid |->
                   {<<"constraint", constraints[i].id>> : i \in
                       {j \in 1..Len(constraints) : ~verifyConstraint(constraints[j])}}
                   \cup
                   {<<"sub-filter", subFilters[i].id>> : i \in
                       {j \in 1..Len(subFilters) : ~verifyFilter(subFilters[j])}}]
        c1 == Validated(c0, "constraint", constraints, askC)
        c2 == Validated(c1, "sub-filter", subFilters, askF)
    IN  IF req = <<>> /\ c2.outcome = "pending"
        THEN [c2 EXCEPT !.outcome = "rejected",
                        !.error = [kind |-> "empty", ids |-> <<>>]]
        ELSE c2

\* a createFilter call of caller w
createFilter(w, uri, requireAll, constraints, subFilters) ==
    /\ Drained(cf[w])
    /\ uuidCtr + ListUsed(constraints, subFilters) <= MaxUuid
    /\ cf' = [cf EXCEPT ![w] = createFilterCall(uuidCtr, uri, requireAll,
                                                constraints, subFilters)]
    /\ uuidCtr' = uuidCtr + ListUsed(constraints, subFilters)
    /\ UNCHANGED store

\* the store answers the ASK of verifyConstraint for the i-th constraint
AnswerVerifyConstraint(w, i) ==
    LET c == cf[w]
        ask == [c.askC EXCEPT ![i] =
                    IF verifyConstraint(c.constraints[i]) THEN "T" ELSE "F"]
    IN  /\ i \in 1..Len(c.askC)
        /\ c.askC[i] = "?"
        /\ cf' = [cf EXCEPT ![w] =
                    Validated([c EXCEPT !.askC = ask], "constraint",
                              c.constraints, ask)]
        /\ UNCHANGED <<store, uuidCtr>>

\* the store answers the query of verifyFilter for the i-th sub-filter
AnswerVerifyFilter(w, i) ==
    LET c == cf[w]
        ask == [c.askF EXCEPT ![i] =
                    IF verifyFilter(c.subFilters[i]) THEN "T" ELSE "F"]
    IN  /\ i \in 1..Len(c.askF)
        /\ c.askF[i] = "?"
        /\ cf' = [cf EXCEPT ![w] =
                    Validated([c EXCEPT !.askF = ask], "sub-filter",
                              c.subFilters, ask)]
        /\ UNCHANGED <<store, uuidCtr>>

\* the store executes the insert of createFilter and answers: .then(resolve)
ApplyCreateFilter(w) ==
    LET c == cf[w]
    IN  /\ c.update = "pending"
        /\ store' = store \cup c.facts
        /\ cf' = [cf EXCEPT ![w] =
                    [c EXCEPT !.update = "applied",
                              !.outcome = IF c.outcome = "pending"
                                          THEN "resolved" ELSE c.outcome]]
        /\ UNCHANGED uuidCtr

\* the store fails the insert of createFilter: nothing is written and the
\* call rejects with the error of the store: .catch(reject)
FailCreateFilter(w) ==
    LET c == cf[w]
    IN  /\ c.update = "pending"
        /\ cf' = [cf EXCEPT ![w] =
                    [c EXCEPT !.update = "failed",
                              !.outcome = IF c.outcome = "pending"
                                          THEN "rejected" ELSE c.outcome,
                              !.error = IF c.outcome = "pending"
                                        THEN [kind |-> "store", ids |-> <<>>]
                                        ELSE c.error]]
        /\ UNCHANGED <<store, uuidCtr>>

----------------------------------------------------------------------------
(* Single round trips: constraints, deletes, the reader *)

\* an insert that writes the predicate where the object belongs
ConstraintFactsObjectLost(uri, subject, predicate, object, m) ==
    {<<uri, "ext:constraintSubject", Lit(subject)>>,
     <<uri, "ext:constraintPredicate", Lit(predicate)>>,
     <<uri, "ext:constraintObject", Lit(predicate)>>,
     <<uri, "sh:path", m.path>>}

ConstraintFacts(uri, subject, predicate, object, m) ==
    {<<uri, "ext:constraintSubject", Lit(subject)>>,
     <<uri, "ext:constraintPredicate", Lit(predicate)>>,
     <<uri, "ext:constraintObject", Lit(object)>>,
     <<uri, "sh:path", m.path>>}
    \cup m.facts
    \cup {<<uri, po[1], po[2]>> : po \in mapPredicateObject(predicate, object)}

NoConstraintCall ==
    [outcome |-> "none", error |-> "", field |-> "", uri |-> constraintURI(0),
     subject |-> "", predicate |-> "", object |-> "", before |-> {}]

\* the uuid() values createConstraint draws stay within the bound
Fits(subject, bound) == uuidCtr + mapSubject(uuidCtr, subject).used <= bound

\* createConstraint(constraintUri, subject, predicate, object); the call and
\* the store it was made on are kept with its outcome
createConstraint(uri, subject, predicate, object) ==
    LET m == mapSubject(uuidCtr, subject)
        call == [NoConstraintCall EXCEPT
                    !.uri = uri, !.subject = subject, !.predicate = predicate,
                    !.object = object, !.before = store]
    IN  /\ uuidCtr' = uuidCtr + m.used
        /\ IF ~m.ok
           THEN /\ cc' = [call EXCEPT !.outcome = "rejected",
                                      !.error = "Invalid subject",
                                      !.field = subject]
                /\ UNCHANGED store
           ELSE IF mapPredicateObject(predicate, object) = {}
           THEN /\ cc' = [call EXCEPT !.outcome = "rejected",
                                      !.error = "Invalid predicate",
                                      !.field = predicate]
                /\ UNCHANGED store
           ELSE /\ store' = store \cup
                        ConstraintFacts(uri, subject, predicate, object, m)
                /\ cc' = [call EXCEPT !.outcome = "resolved"]

\* deleteConstraint(constraintUri)
deleteConstraint(uri) == store' = deleteSubject(uri)

\* a deleteFilter that leaves the combinator edges of the node behind
deleteFilterKeepsEdges(uri) ==
    store' = {t \in store : t[1] /= uri \/ t[2] \in {ShAnd, ShOr}}

\* deleteFilter(filterUri)
deleteFilter(uri) == store' = deleteSubject(uri)

\* a tree without the order of its children
Shape(tree) ==
    [requireAll |-> tree.requireAll,
     ids |-> {ChildIds(tree)[i] : i \in 1..Len(ChildIds(tree))}]

NoShape == [requireAll |-> FALSE, ids |-> {}]

IdleReplace ==
    [pc |-> "idle", uri |-> filterURI(0), requireAll |-> FALSE,
     constraints |-> <<>>, old |-> {}, new |-> NoShape, crossed |-> FALSE]

NoRead ==
    [called |-> FALSE, uri |-> filterURI(0), result |-> NotFound,
     after |-> IdleCall, writer |-> 0, old |-> {}, new |-> NoShape]

\* the createFilter call of the caller, when it has resolved and nothing of
\* it is on its way
Resolved(c) == c.phase = "called" /\ Drained(c) /\ c.outcome = "resolved"

\* the callers that are replacing uri right now
Replacing(uri) ==
    {w \in Callers : rp[w].pc \in {"delete", "create"} /\ rp[w].uri = uri}

\* a findFilter(uri) call and its result; after, writer, old and new record
\* what the writers were doing when the call was made
FindFilter(uri) ==
    \E r \in findFilter(uri, MaxFilter) :
        LET only == IF Cardinality(Replacing(uri)) = 1
                    THEN CHOOSE w \in Replacing(uri) : TRUE ELSE 0
        IN  rd' = [called |-> TRUE, uri |-> uri, result |-> r,
                   after |-> IF Resolved(cf[1]) /\ cf[1].uri = uri
                             THEN cf[1] ELSE IdleCall,
                   writer |-> only,
                   old |-> IF only = 0 THEN {} ELSE rp[only].old,
                   new |-> IF only = 0 THEN NoShape ELSE rp[only].new]

----------------------------------------------------------------------------
(* POST /subscription-filters of the first app.js, with filterToSPARQLQuery *)

MaxPostUuid == 6

\* a URI made of a uuid() value: the third part keeps it apart from the ids
\* the requests name
freshURI(kind, u) == <<kind, u, "uuid">>
EmailLit(e) == <<"lit", e, "email">>
TokenLit(u) == <<"lit", u, "token">>

\* SELECT ?user WHERE { ?user a schema:Person; schema:email "<email>" }
usersWithEmail(email) ==
    {t[1] : t \in {x \in store : x[2] = "schema:email" /\ x[3] = EmailLit(email)
                                  /\ <<x[1], "rdf:type", Term("schema:Person")>>
                                        \in store}}

UserFacts(user, email, token) ==
    {<<user, "rdf:type", Term("schema:Person")>>,
     <<user, "schema:email", EmailLit(email)>>,
     <<user, "account:password", TokenLit(token)>>}

NoQuery == [kind |-> "none", facts |-> {}]

IdlePost ==
    [pc |-> "idle", requireAll |-> FALSE, email |-> 0, constraints |-> <<>>,
     filterUri |-> filterURI(0), user |-> userURI(0), token |-> 0,
     query |-> NoQuery, responses |-> <<>>, message |-> "", before |-> {},
     hasEmail |-> TRUE]

\* the handler up to its first suspension: validateRequest wants the
\* attributes require-all and email; resourceId = uuid(); the filter URI is
\* built on the constraints prefix; the verifications are sent
PostCall(hasEmail, requireAll, email, constraints) ==
    /\ post.pc \in {"idle", "done"}
    /\ IF ~hasEmail
       THEN /\ post' = [IdlePost EXCEPT !.pc = "done", !.responses = <<400>>,
                                        !.message = "Missing attribute: 'email'.",
                                        !.before = store, !.hasEmail = FALSE]
            /\ UNCHANGED uuidCtr
       ELSE /\ uuidCtr + 1 <= MaxPostUuid
            /\ uuidCtr' = uuidCtr + 1
            /\ post' = [IdlePost EXCEPT
                            !.pc = "verify", !.requireAll = requireAll,
                            !.email = email, !.constraints = constraints,
                            !.filterUri = freshURI("constraints", uuidCtr + 1),
                            !.before = store]
    /\ UNCHANGED store

\* filterToSPARQLQuery: every verification has been answered
PostVerified ==
    LET bad == SelectSeq(post.constraints, LAMBDA r : ~verifyConstraint(r))
    IN  /\ post.pc = "verify"
        /\ IF bad /= <<>>
           THEN post' = [post EXCEPT
                            !.pc = "execute",
                            !.responses = @ \o <<400>>,
                            !.message = "Invalid constraint",
                            !.query = [kind |-> "undefined", facts |-> {}]]
           ELSE post' = [post EXCEPT !.pc = "lookup"]
        /\ UNCHANGED <<store, uuidCtr>>

\* the query of filterToSPARQLQuery once the user is known
PostQuery(p, user, u) ==
    LET items == [i \in 1..Len(p.constraints) |->
                    constraintURI(p.constraints[i].id)]
        list == createListQuery(u, items)
    IN  [kind |-> "text", used |-> list.used,
         facts |-> {<<user, "ext:hasSubscription", p.filterUri>>}
                   \cup FilterFacts(p.filterUri, p.requireAll, list)]

\* filterToSPARQLQuery: the user lookup has been answered; an unknown email
\* gets a user URI and a password, two uuid() values, and its insert is sent
PostLookup ==
    LET users == usersWithEmail(post.email)
    IN  /\ post.pc = "lookup"
        /\ IF users = {}
           THEN /\ uuidCtr + 2 <= MaxPostUuid
                /\ uuidCtr' = uuidCtr + 2
                /\ post' = [post EXCEPT
                                !.pc = "insertUser",
                                !.user = freshURI("users", uuidCtr + 1),
                                !.token = uuidCtr + 2]
           ELSE \E user \in users :
                    LET q == PostQuery(post, user, uuidCtr)
                    IN  /\ uuidCtr + q.used <= MaxPostUuid
                        /\ uuidCtr' = uuidCtr + q.used
                        /\ post' = [post EXCEPT
                                        !.pc = "execute", !.user = user,
                                        !.query = [kind |-> "text",
                                                   facts |-> q.facts]]
        /\ UNCHANGED store

\* filterToSPARQLQuery: the store has inserted the new user
PostInsertUser ==
    LET q == PostQuery(post, post.user, uuidCtr)
    IN  /\ post.pc = "insertUser"
        /\ uuidCtr + q.used <= MaxPostUuid
        /\ uuidCtr' = uuidCtr + q.used
        /\ store' = store \cup UserFacts(post.user, post.email, post.token)
        /\ post' = [post EXCEPT !.pc = "execute",
                                !.query = [kind |-> "text", facts |-> q.facts]]

\* querySudo(sparqlQuery) and the answer of the handler: 201, or 500 when
\* the store rejects the text
PostExecute ==
    /\ post.pc = "execute"
    /\ IF post.query.kind = "text" /\ Parses(post.query.facts)
       THEN /\ store' = store \cup post.query.facts
            /\ post' = [post EXCEPT !.pc = "done", !.responses = @ \o <<201>>]
       ELSE /\ UNCHANGED store
            /\ post' = [post EXCEPT
                            !.pc = "done", !.responses = @ \o <<500>>,
                            !.message = "Could not execute SPARQL query"]
    /\ UNCHANGED uuidCtr

----------------------------------------------------------------------------
(* addSubscription and sendSubscriptionEmail *)

MaxSubUuid == 6

NoPrev ==
    [resolved |-> FALSE, email |-> 0, user |-> userURI(0),
     filterUri |-> filterURI(0), created |-> FALSE]

IdleSub ==
    [pc |-> "idle", filterUri |-> filterURI(0), email |-> 0,
     user |-> userURI(0), created |-> FALSE, outcome |-> "none",
     prev |-> NoPrev]

Update(kind, w, user, email, token, filterUri) ==
    [kind |-> kind, w |-> w, user |-> user, email |-> email, token |-> token,
     filterUri |-> filterUri]

\* what the other caller's call was, if it had resolved by now
Earlier(w) ==
    LET o == sub[3 - w]
    IN  IF o.outcome = "resolved"
        THEN [resolved |-> TRUE, email |-> o.email, user |-> o.user,
              filterUri |-> o.filterUri, created |-> o.created]
        ELSE NoPrev

\* the call: the promise is made and the user lookup is sent
addSubscription(w, filterUri, email) ==
    /\ sub[w].outcome \in {"none", "resolved", "rejected"}
    /\ sub' = [sub EXCEPT ![w] =
                  [IdleSub EXCEPT !.pc = "lookup", !.filterUri = filterUri,
                                  !.email = email, !.outcome = "pending",
                                  !.prev = Earlier(w)]]
    /\ UNCHANGED <<store, mailbox, uuidCtr, net>>

\* the lookup is answered: an unknown email gets a user URI and a password
\* and its insert is sent; the edge insert is sent in the same turn
AnswerUserLookup(w) ==
    LET users == usersWithEmail(sub[w].email)
        fresh == freshURI("users", uuidCtr + 1)
    IN  /\ sub[w].pc = "lookup"
        /\ IF users = {}
           THEN /\ uuidCtr + 2 <= MaxSubUuid
                /\ uuidCtr' = uuidCtr + 2
                /\ sub' = [sub EXCEPT ![w].pc = "sent", ![w].user = fresh,
                                      ![w].created = TRUE]
                /\ net' = net \cup
                      {Update("user", w, fresh, sub[w].email, uuidCtr + 2,
                              sub[w].filterUri),
                       Update("edge", w, fresh, sub[w].email, 0,
                              sub[w].filterUri)}
           ELSE /\ UNCHANGED uuidCtr
                /\ \E user \in users :
                      /\ sub' = [sub EXCEPT ![w].pc = "sent",
                                            ![w].user = user]
                      /\ net' = net \cup
                            {Update("edge", w, user, sub[w].email, 0,
                                    sub[w].filterUri)}
        /\ UNCHANGED <<store, mailbox>>

\* the store applies the user insert; sendSubscriptionEmail sends the mail
ApplyUserInsert(m) ==
    /\ m \in net /\ m.kind = "user"
    /\ uuidCtr + 1 <= MaxSubUuid
    /\ uuidCtr' = uuidCtr + 1
    /\ store' = store \cup UserFacts(m.user, m.email, m.token)
    /\ net' = (net \ {m})
                \cup {Update("mail", m.w, userURI(0), m.email, m.token,
                             filterURI(0))}
    /\ UNCHANGED <<mailbox, sub>>

\* the store applies the edge insert; the promise of the call resolves
ApplyEdgeInsert(m) ==
    /\ m \in net /\ m.kind = "edge"
    /\ store' = store \cup {<<m.user, "ext:hasSubscription", m.filterUri>>}
    /\ net' = net \ {m}
    /\ sub' = [sub EXCEPT ![m.w].outcome =
                  IF @ = "pending" THEN "resolved" ELSE @]
    /\ UNCHANGED <<mailbox, uuidCtr>>

\* the store applies the insert of the mail
ApplyMailInsert(m) ==
    /\ m \in net /\ m.kind = "mail"
    /\ mailbox' = mailbox \cup {<<m.email, m.token>>}
    /\ net' = net \ {m}
    /\ UNCHANGED <<store, uuidCtr, sub>>

\* the store fails the insert of the mail: sendSubscriptionEmail rejects
\* and the .catch(reject) behind it rejects the promise of the call, which
\* changes nothing once the promise has settled
FailMailInsert(m) ==
    /\ m \in net /\ m.kind = "mail"
    /\ net' = net \ {m}
    /\ sub' = [sub EXCEPT ![m.w].outcome =
                  IF @ = "pending" THEN "rejected" ELSE @]
    /\ UNCHANGED <<store, mailbox, uuidCtr>>

----------------------------------------------------------------------------
(* Replacing a filter: deleteFilter, then createFilter under the same id *)

MaxReplaceUuid == 3

\* the replace begins: what a reader could load now is kept as the old tree,
\* and the deleteFilter update is sent
Replace(w, uri, requireAll, constraints) ==
    /\ rp[w].pc \in {"idle", "done"}
    /\ Drained(cf[w])
    /\ rp' = [rp EXCEPT ![w] =
                 [pc |-> "delete", uri |-> uri, requireAll |-> requireAll,
                  constraints |-> constraints,
                  old |-> {Shape(t) : t \in {x \in findFilter(uri, MaxFilter) :
                                                x.found}},
                  new |-> [requireAll |-> requireAll,
                           ids |-> {constraints[i].id :
                                      i \in 1..Len(constraints)}],
                  crossed |-> FALSE]]
    /\ UNCHANGED <<store, uuidCtr, cf>>

\* the store applies the deleteFilter; createFilter is called (the store
\* before the call is not recorded for a replace)
ReplaceDeleted(w) ==
    /\ rp[w].pc = "delete"
    /\ deleteFilter(rp[w].uri)
    /\ uuidCtr + ListUsed(rp[w].constraints, <<>>) <= MaxReplaceUuid
    /\ uuidCtr' = uuidCtr + ListUsed(rp[w].constraints, <<>>)
    /\ cf' = [cf EXCEPT ![w] =
                 [createFilterCall(uuidCtr, rp[w].uri, rp[w].requireAll,
                                   rp[w].constraints, <<>>)
                    EXCEPT !.before = {}]]
    /\ rp' = [rp EXCEPT ![w].pc = "create"]

\* an answer of the store to the createFilter of the replace; the replace
\* is over when createFilter has settled.  crossed records that the other
\* writer had its delete applied, and not yet its insert, when the insert
\* of this writer was applied
ReplaceAnswered(w) ==
    /\ rp[w].pc = "create"
    /\ \/ \E i \in 1..Len(cf[w].askC) : AnswerVerifyConstraint(w, i)
       \/ ApplyCreateFilter(w)
    /\ rp' = [rp EXCEPT
                 ![w].pc = IF Drained(cf'[w]) /\ cf'[w].outcome /= "pending"
                           THEN "done" ELSE @,
                 ![w].crossed =
                    IF cf[w].update = "pending" /\ cf'[w].update = "applied"
                    THEN /\ rp[3 - w].uri = rp[w].uri
                         /\ rp[3 - w].pc = "create"
                         /\ cf[3 - w].update = "pending"
                    ELSE @]

----------------------------------------------------------------------------
(* The sequential client: one call at a time, each left to finish; a call  *)
(* starts with the results of the earlier calls dropped                    *)

IdleCodec == [pc |-> "idle", seq |-> <<>>, decoded |-> <<>>]

NoRequest ==
    [kind |-> "none", uri |-> filterURI(0), hasToken |-> FALSE, token |-> 0,
     before |-> {}, status |-> 0, message |-> "", diverges |-> FALSE,
     filters |-> <<>>, data |-> <<>>]

Init ==
    /\ store = {}
    /\ mailbox = {}
    /\ uuidCtr = 0
    /\ cf = [w \in Callers |-> IdleCall]
    /\ rp = [w \in Callers |-> IdleReplace]
    /\ rd = NoRead
    /\ sub = [w \in Callers |-> IdleSub]
    /\ net = {}
    /\ post = IdlePost
    /\ cc = NoConstraintCall
    /\ codec = IdleCodec
    /\ lastReq = NoRequest

Others == <<mailbox, rp, sub, net, post, codec, lastReq>>

CallCreateFilter ==
    /\ Drained(cf[1])
    /\ \E id \in FilterIds, requireAll \in BOOLEAN,
          cs \in SeqsUpTo(ConstraintRefs, MaxRefs),
          fs \in SeqsUpTo(SubFilterRefs, MaxSubRefs) :
            createFilter(1, filterURI(id), requireAll, cs, fs)
    /\ rd' = NoRead /\ cc' = NoConstraintCall
    /\ UNCHANGED Others

StoreAnswers ==
    /\ \/ \E i \in 1..MaxRefs : AnswerVerifyConstraint(1, i)
       \/ \E i \in 1..MaxSubRefs : AnswerVerifyFilter(1, i)
       \/ ApplyCreateFilter(1)
    /\ UNCHANGED <<rd, cc>>
    /\ UNCHANGED Others

CallCreateConstraint ==
    /\ Drained(cf[1])
    /\ \E id \in ConstraintIds, s \in Subjects, p \in Predicates,
          o \in ObjectValues :
            /\ Fits(s, MaxUuid)
            /\ createConstraint(constraintURI(id), s, p, o)
    /\ cf' = [cf EXCEPT ![1] = IdleCall] /\ rd' = NoRead
    /\ UNCHANGED Others

CallDeleteConstraint ==
    /\ Drained(cf[1])
    /\ \E id \in ConstraintIds : deleteConstraint(constraintURI(id))
    /\ cf' = [cf EXCEPT ![1] = IdleCall] /\ rd' = NoRead
    /\ cc' = NoConstraintCall
    /\ UNCHANGED <<uuidCtr, Others>>

CallDeleteFilter ==
    /\ Drained(cf[1])
    /\ \E id \in FilterIds : deleteFilter(filterURI(id))
    /\ cf' = [cf EXCEPT ![1] = IdleCall] /\ rd' = NoRead
    /\ cc' = NoConstraintCall
    /\ UNCHANGED <<uuidCtr, Others>>

CallFindFilter ==
    /\ Drained(cf[1])
    /\ \E id \in FilterIds : FindFilter(filterURI(id))
    /\ cf' = [cf EXCEPT ![1] = IdleCall] /\ cc' = NoConstraintCall
    /\ UNCHANGED <<store, uuidCtr, Others>>

Next ==
    \/ CallCreateConstraint
    \/ CallDeleteConstraint
    \/ CallCreateFilter
    \/ StoreAnswers
    \/ CallDeleteFilter
    \/ CallFindFilter

Spec == Init /\ [][Next]_vars

----------------------------------------------------------------------------
(* Properties of createFilter and findFilter under the sequential client *)

SubmittedIds(c) ==
    [i \in 1..Len(c.constraints) |-> c.constraints[i].id]
    \o [i \in 1..Len(c.subFilters) |-> c.subFilters[i].id]

\* the ids an error message of createFilter names, with the kind it names
Named(c) == {<<c.error.kind, c.error.ids[i]>> : i \in 1..Len(c.error.ids)}

\* C1: a findFilter(id) made right after a createFilter(id, ...) on existing
\* references resolved returns the submitted combinator and the submitted
\* child ids in the submitted order, constraints first.
C1_RoundTrip ==
    (rd.called /\ rd.after.phase = "called" /\ rd.after.invalid = {})
    => /\ rd.result.found
       /\ rd.result.requireAll = rd.after.requireAll
       /\ ChildIds(rd.result) = SubmittedIds(rd.after)

\* C3: a createFilter call with a reference that was invalid when the call
\* was made ends rejected and leaves the store as it was before the call.
C3_InvalidRefWritesNothing ==
    \A w \in Callers :
        (cf[w].phase = "called" /\ cf[w].invalid /= {} /\ Drained(cf[w]))
        => /\ cf[w].outcome = "rejected"
           /\ cf[w].update = "none"
           /\ store = cf[w].before

\* C4: the error a createFilter call with invalid references rejects with
\* names every invalid reference, constraint or sub-filter, and no other.
C4_ErrorNamesAllInvalid ==
    \A w \in Callers :
        (cf[w].phase = "called" /\ cf[w].invalid /= {}
         /\ cf[w].outcome = "rejected")
        => Named(cf[w]) = cf[w].invalid

\* C11: every findFilter call ends, whatever createConstraint, createFilter,
\* deleteConstraint and deleteFilter calls have made the store, a filter
\* made again under an id in use included.
C11_FindFilterTerminates ==
    rd.called => ~rd.result.diverges

\* C17: a findFilter call on an id that has neither an sh:and nor an sh:or
\* edge in the store returns undefined: no tree, and it ends.
C17_NoEdgeNotFound ==
    (rd.called /\ Objects(rd.uri, ShAnd) \cup Objects(rd.uri, ShOr) = {})
    => rd.result = NotFound

\* the id read has no fact left, and no filter has a combinator edge, while
\* the list of a filter made before is still in the store: the filters made
\* have been deleted
C17_DeletedRead ==
    /\ rd.called
    /\ rd.result = NotFound
    /\ \A t \in store : t[1] /= rd.uri /\ t[2] \notin {ShAnd, ShOr}
    /\ \E t \in store : t[1] = listURI(1) /\ t[2] = "rdf:first"

\* the combinator edges of a node
Combinators(uri) == {t \in store : t[1] = uri /\ t[2] \in {ShAnd, ShOr}}

\* C28: a filter id that is in the store has one combinator edge, sh:and or
\* sh:or, and with it one child chain; an id without the filter facts has
\* none.  This holds also after createFilter on an id that is present.
C28_OneCombinatorEdge ==
    \A id \in FilterIds :
        Cardinality(Combinators(filterURI(id)))
            = IF existsFilter(filterURI(id)) THEN 1 ELSE 0

----------------------------------------------------------------------------
(* The sequential client with a store that may fail the insert of a filter *)

StoreFailsInsert ==
    /\ FailCreateFilter(1)
    /\ UNCHANGED <<rd, cc>>
    /\ UNCHANGED Others

NextFailing == Next \/ StoreFailsInsert

SpecFailing == Init /\ [][NextFailing]_vars

\* the chain that starts at root ends in rdf:nil and every node of it has
\* a first and a rest
ChainComplete(root) ==
    /\ root /= RdfNil
    /\ RdfNil \in RestClosure({root})
    /\ \A n \in RestClosure({root}) \ {RdfNil} :
            /\ Objects(n, "rdf:first") /= {}
            /\ Objects(n, "rdf:rest") /= {}

\* C24: createFilter writes a filter in one update, all of it or nothing.
\* In every store state, also after the store has failed an insert, every
\* combinator edge belongs to a node with the type facts and leads to a
\* complete chain; an insert that was applied has left all its facts, one
\* that failed none.
C24_FilterWrittenWhole ==
    /\ \A t \in store :
            t[2] \in {ShAnd, ShOr}
            => existsFilter(t[1]) /\ ChainComplete(t[3])
    /\ cf[1].update = "applied" => cf[1].facts \subseteq store
    /\ cf[1].update = "failed" => store = cf[1].before

\* the store has failed the insert of a filter while another filter is
\* stored: the store is as it was before the call
C24_FailedInsertSeen ==
    /\ cf[1].update = "failed"
    /\ cf[1].outcome = "rejected"
    /\ cf[1].facts /= {}
    /\ store = cf[1].before
    /\ \E t \in store : t[2] \in {ShAnd, ShOr} /\ ChainComplete(t[3])

----------------------------------------------------------------------------
(* The codec on its own: a sequence is encoded, then decoded as findFilter *)
(* decodes the children of a filter                                        *)

MaxSeq == 3
CodecItems == {constraintURI(1), constraintURI(2), filterURI(1)}
Holder == filterURI(1)

InitCodec ==
    /\ store = {}
    /\ mailbox = {}
    /\ uuidCtr = 0
    /\ cf = [w \in Callers |-> IdleCall]
    /\ rp = [w \in Callers |-> IdleReplace]
    /\ rd = NoRead
    /\ sub = [w \in Callers |-> IdleSub]
    /\ net = {}
    /\ post = IdlePost
    /\ cc = NoConstraintCall
    /\ \E s \in SeqsUpTo(CodecItems, MaxSeq) \ {<<>>} :
            codec = [pc |-> "start", seq |-> s, decoded |-> <<>>]
    /\ lastReq = NoRequest

\* the chain of createListQuery(seq) is written under a combinator edge
CodecEncode ==
    LET list == createListQuery(uuidCtr, codec.seq)
    IN  /\ codec.pc = "start"
        /\ store' = store \cup list.facts \cup {<<Holder, ShAnd, list.root>>}
        /\ uuidCtr' = uuidCtr + list.used
        /\ codec' = [codec EXCEPT !.pc = "encoded"]
        /\ UNCHANGED <<mailbox, cf, rp, rd, sub, net, post, cc, lastReq>>

\* the children are read back as findFilter reads them
CodecDecode ==
    /\ codec.pc = "encoded"
    /\ \E d \in GroupConcat(Solutions(Holder, ShAnd)) :
            codec' = [codec EXCEPT !.pc = "decoded", !.decoded = d]
    /\ UNCHANGED <<store, uuidCtr, mailbox, cf, rp, rd, sub, net, post, cc, lastReq>>

NextCodec == CodecEncode \/ CodecDecode

SpecCodec == InitCodec /\ [][NextCodec]_vars

\* C2: what findFilter decodes from the chain of createListQuery(seq) is seq,
\* in the same order, in whatever order the store lists the chain members.
C2_DecodeReturnsSeq ==
    codec.pc = "decoded" => codec.decoded = codec.seq

----------------------------------------------------------------------------
(* The POST handler with a sequential client *)

PostCreateConstraint ==
    /\ post.pc \in {"idle", "done"}
    /\ \E id \in ConstraintIds, s \in Subjects, p \in Predicates,
          o \in ObjectValues :
            /\ Fits(s, MaxPostUuid)
            /\ createConstraint(constraintURI(id), s, p, o)
    /\ UNCHANGED <<mailbox, cf, rp, rd, sub, net, post, codec, lastReq>>

PostSteps ==
    /\ \/ \E hasEmail \in BOOLEAN, requireAll \in BOOLEAN, e \in Emails,
             cs \in SeqsUpTo(ConstraintRefs, MaxRefs) :
                PostCall(hasEmail, requireAll, e, cs)
       \/ PostVerified
       \/ PostLookup
       \/ PostInsertUser
       \/ PostExecute
    /\ UNCHANGED <<mailbox, cf, rp, rd, sub, net, cc, codec, lastReq>>

NextPost == PostCreateConstraint \/ PostSteps

SpecPost == Init /\ [][NextPost]_vars

\* the chain of every combinator edge in the store has a first member
ChildrenNonEmpty ==
    \A t \in store :
        t[2] \in {ShAnd, ShOr} => Objects(t[3], "rdf:first") /= {}

\* C5: no stored filter is childless, and a filter creation without any
\* constraint or sub-filter reference fails with the error 'Need at least
\* one constraint or subFilter' and writes nothing, through createFilter
\* and through filterToSPARQLQuery.
C5_EmptyChildrenRejected ==
    /\ ChildrenNonEmpty
    /\ \A w \in Callers :
          (cf[w].phase = "called" /\ cf[w].constraints = <<>>
           /\ cf[w].subFilters = <<>>)
          => /\ cf[w].error.kind = "empty"
             /\ cf[w].update = "none"
    /\ (post.pc = "done" /\ post.filterUri /= filterURI(0)
        /\ post.constraints = <<>>)
       => /\ post.message = "Need at least one constraint or subFilter"
          /\ store = post.before

\* C20: a POST /subscription-filters whose attributes carry no email is
\* accepted: it is answered 201 and nothing but 201, and it adds neither a
\* subscriber nor a hasSubscription edge to the store.
C20_NoEmailAccepted ==
    (post.pc = "done" /\ ~post.hasEmail)
    => /\ post.responses = <<201>>
       /\ \A t \in store \ post.before :
              t[2] \notin {"schema:email", "account:password",
                           "ext:hasSubscription"}

\* C29: every POST /subscription-filters gets one response and no more.
\* After filterToSPARQLQuery has answered 400 for an invalid constraint and
\* returned undefined, the handler sends no query and no second response.
C29_OneResponse ==
    post.pc = "done"
    => /\ Len(post.responses) = 1
       /\ post.query.kind = "undefined" => post.responses = <<400>>

\* the URI createFilter writes into a child chain for a sub-filter reference
\* to the filter stored at uri: the id of uri under the filters prefix
SubFilterReference(uri) == <<"filters", IdOf(uri), uri[3]>>

\* C30: the URI that createFilter writes for a reference to the sub-filter
\* X is the URI under which the POST handler stored the filter X.
C30_ReferenceReachesFilter ==
    (post.pc = "done" /\ post.responses = <<201>>)
    => /\ SubFilterReference(post.filterUri) = post.filterUri
       /\ Objects(SubFilterReference(post.filterUri), ShAnd)
            \cup Objects(SubFilterReference(post.filterUri), ShOr) /= {}

----------------------------------------------------------------------------
(* Two callers of addSubscription *)

CallAddSubscription ==
    /\ \E w \in Callers, id \in FilterIds, e \in Emails :
            addSubscription(w, filterURI(id), e)
    /\ UNCHANGED <<cf, rp, rd, post, cc, codec, lastReq>>

SubAnswers ==
    /\ \/ \E w \in Callers : AnswerUserLookup(w)
       \/ \E m \in net : ApplyUserInsert(m)
       \/ \E m \in net : ApplyEdgeInsert(m)
       \/ \E m \in net : ApplyMailInsert(m)
    /\ UNCHANGED <<cf, rp, rd, post, cc, codec, lastReq>>

NextSub == CallAddSubscription \/ SubAnswers

SpecSub == Init /\ [][NextSub]_vars

\* C6: no email address ever belongs to more than one Subscriber, also when
\* two addSubscription calls with the same unknown email interleave.
C6_OneSubscriberPerEmail ==
    \A e \in Emails : Cardinality(usersWithEmail(e)) <= 1

\* C7: a call made after an earlier call with the same, then unknown, email
\* has resolved creates no subscriber and uses the subscriber of that call.
C7_SecondCallSameSubscriber ==
    \A w \in Callers :
        (sub[w].pc = "sent" /\ sub[w].prev.resolved /\ sub[w].prev.created
         /\ sub[w].prev.email = sub[w].email)
        => /\ ~sub[w].created
           /\ sub[w].user = sub[w].prev.user

\* C8: once the same subscription has been added twice, the second call has
\* resolved and there is exactly one hasSubscription edge to the filter.
C8_SameSubscriptionOneEdge ==
    \A w \in Callers :
        (sub[w].prev.resolved /\ sub[w].prev.email = sub[w].email
         /\ sub[w].prev.filterUri = sub[w].filterUri
         /\ sub[w].outcome = "resolved")
        => Cardinality({t \in store :
                          /\ t[2] = "ext:hasSubscription"
                          /\ t[3] = sub[w].filterUri
                          /\ t[1] \in {sub[w].user, sub[w].prev.user}}) = 1

\* the notifications issued so far, delivered or on their way
Mails ==
    mailbox \cup {<<m.email, m.token>> : m \in {x \in net : x.kind = "mail"}}

\* C21: addSubscription notifies once for every subscriber it creates and
\* never for an email that is already on file: every notification belongs
\* to a subscriber stored with that email and carries the token stored for
\* it, every stored subscriber has one notification, and no email gets a
\* second one.
C21_NotifiedOncePerNewEmail ==
    /\ \A x \in Mails :
            \E u \in usersWithEmail(x[1]) :
                TokenLit(x[2]) \in Objects(u, "account:password")
    /\ \A e \in Emails :
            \A u \in usersWithEmail(e) :
                Cardinality({x \in Mails : /\ x[1] = e
                                           /\ TokenLit(x[2]) \in
                                                Objects(u, "account:password")})
                    = 1
    /\ \A e \in Emails : Cardinality({x \in Mails : x[1] = e}) <= 1

\* the node is a subscriber in the store: a person with an email and a
\* password
IsSubscriber(user) ==
    /\ <<user, "rdf:type", Term("schema:Person")>> \in store
    /\ Objects(user, "schema:email") /= {}
    /\ Objects(user, "account:password") /= {}

\* C27: in every store state, and so whenever addSubscription has resolved,
\* every hasSubscription edge starts at a subscriber that is in the store
\* with its email and its token: no edge is written before the insert of
\* its user has been applied.
C27_EdgeFromStoredSubscriber ==
    \A t \in store : t[2] = "ext:hasSubscription" => IsSubscriber(t[1])

----------------------------------------------------------------------------
(* One caller of addSubscription with a store that may fail the mail insert *)

NotifyCall ==
    /\ \E id \in FilterIds, e \in Emails : addSubscription(1, filterURI(id), e)
    /\ UNCHANGED <<cf, rp, rd, post, cc, codec, lastReq>>

NotifyAnswers ==
    /\ \/ AnswerUserLookup(1)
       \/ \E m \in net : ApplyUserInsert(m)
       \/ \E m \in net : ApplyEdgeInsert(m)
       \/ \E m \in net : ApplyMailInsert(m)
    /\ UNCHANGED <<cf, rp, rd, post, cc, codec, lastReq>>

NotifyFails ==
    /\ \E m \in net : FailMailInsert(m)
    /\ UNCHANGED <<cf, rp, rd, post, cc, codec, lastReq>>

NextNotify == NotifyCall \/ NotifyAnswers \/ NotifyFails

SpecNotify == Init /\ [][NextNotify]_vars

\* C22: a notification that fails does not change how addSubscription
\* settles.  Here the lookup and the inserts of the user and of the edge
\* always succeed, so with every notification delivered every call
\* resolves: no call rejects.
C22_NotificationFailureSilent ==
    \A w \in Callers : sub[w].outcome /= "rejected"

----------------------------------------------------------------------------
(* Two writers replacing filters that exist, and a reader *)

InitReplace ==
    LET list == createListQuery(0, <<constraintURI(1)>>)
    IN  /\ store = ConstraintFacts(constraintURI(1), "title", "exists", "",
                                   mapSubject(0, "title"))
                    \cup ConstraintFacts(constraintURI(2), "description",
                                         "exists", "",
                                         mapSubject(0, "description"))
                    \cup FilterFacts(filterURI(1), TRUE, list)
        /\ uuidCtr = list.used
        /\ mailbox = {}
        /\ cf = [w \in Callers |-> IdleCall]
        /\ rp = [w \in Callers |-> IdleReplace]
        /\ rd = NoRead
        /\ sub = [w \in Callers |-> IdleSub]
        /\ net = {}
        /\ post = IdlePost
        /\ cc = NoConstraintCall
        /\ codec = IdleCodec
        /\ lastReq = NoRequest
    /\ lastReq = NoRequest

\* the children a replace asks for: the constraints InitReplace stores
ReplaceChildren ==
    LET ref(i) == [type |-> TypeConstraint, id |-> i]
    IN  {<<ref(1)>>, <<ref(2)>>, <<ref(1), ref(2)>>}

CallReplace ==
    /\ \E w \in Callers, requireAll \in BOOLEAN, cs \in ReplaceChildren :
            Replace(w, filterURI(1), requireAll, cs)
    /\ rd' = NoRead
    /\ UNCHANGED <<mailbox, sub, net, post, cc, codec, lastReq>>

ReplaceSteps ==
    /\ \E w \in Callers : ReplaceDeleted(w) \/ ReplaceAnswered(w)
    /\ rd' = NoRead
    /\ UNCHANGED <<mailbox, sub, net, post, cc, codec, lastReq>>

ReplaceRead ==
    /\ FindFilter(filterURI(1))
    /\ UNCHANGED <<store, uuidCtr, cf, rp, mailbox, sub, net, post, cc, codec, lastReq>>

NextReplace == CallReplace \/ ReplaceSteps \/ ReplaceRead

SpecReplace == InitReplace /\ [][NextReplace]_vars

\* C9: a findFilter made while one replace of its filter is under way
\* returns the old tree or the new tree, never NotFound and never a mixture.
C9_ReplaceLooksAtomic ==
    (rd.called /\ rd.writer /= 0)
    => /\ rd.result.found
       /\ Shape(rd.result) \in rd.old \cup {rd.new}

\* the combinator edges of the createFilter call of a writer
Edges(w) == {t \in cf[w].facts : t[1] = cf[w].uri /\ t[2] \in {ShAnd, ShOr}}

\* both replaces are over and the node carries the chain of each writer,
\* each under its own combinator, the two combinators differing
Torn ==
    /\ \A w \in Callers : rp[w].pc = "done" /\ rp[w].uri = filterURI(1)
    /\ rp[1].requireAll /= rp[2].requireAll
    /\ \A w \in Callers : Edges(w) /= {} /\ Edges(w) \subseteq store

\* C10: two replaces of one filter can leave the node, after both have
\* finished, with one writer's chain next to the other writer's combinator;
\* this happens only when their delete and create phases have interleaved.
C10_TornOnlyInterleaved ==
    Torn => (rp[1].crossed \/ rp[2].crossed)

C10_TornReached == Torn /\ (rp[1].crossed \/ rp[2].crossed)

----------------------------------------------------------------------------
(* Constraints on their own, over the whole vocabulary and names outside *)

MaxConstraintUuid == 4

MappedSubjects ==
    {"title", "description", "sessionLocation", "sessionDate", "governanceArea"}
MappedPredicates ==
    {"textEquals", "governanceAreaEquals", "textContains", "exists", "notExists"}
SubjectNames == MappedSubjects \cup {"colour", "Title", ""}
PredicateNames == MappedPredicates \cup {"smells", "textequals", ""}
ObjectTexts == {"station", ""}

\* the constraint is made under an id nothing is stored for, as the ids of
\* new constraints are uuid() values
ConstraintCreate ==
    /\ \A t \in store : t[1] /= constraintURI(1)
    /\ \E s \in SubjectNames, p \in PredicateNames, o \in ObjectTexts :
            /\ Fits(s, MaxConstraintUuid)
            /\ createConstraint(constraintURI(1), s, p, o)
    /\ UNCHANGED <<mailbox, cf, rp, rd, sub, net, post, codec, lastReq>>

ConstraintDelete ==
    /\ deleteConstraint(constraintURI(1))
    /\ cc' = NoConstraintCall
    /\ UNCHANGED <<uuidCtr, mailbox, cf, rp, rd, sub, net, post, codec, lastReq>>

NextConstraint == ConstraintCreate \/ ConstraintDelete

SpecConstraint == Init /\ [][NextConstraint]_vars

NamedFields(c) ==
    CASE c.error = "Invalid subject" -> {<<"subject", c.field>>}
      [] c.error = "Invalid predicate" -> {<<"predicate", c.field>>}
      [] OTHER -> {}

\* C13: mapSubject maps the five subjects and nothing else, mapPredicateObject
\* the five predicates and nothing else; a createConstraint call with a
\* subject or a predicate outside them is rejected with an error that names
\* the field and its value, and leaves the store as it was.
C13_UnknownNamesRejected ==
    /\ \A s \in SubjectNames : mapSubject(0, s).ok <=> s \in MappedSubjects
    /\ \A p \in PredicateNames, o \in ObjectTexts :
          mapPredicateObject(p, o) /= {} <=> p \in MappedPredicates
    /\ (cc.outcome /= "none"
        /\ (cc.subject \notin MappedSubjects
            \/ cc.predicate \notin MappedPredicates))
       => /\ cc.outcome = "rejected"
          /\ NamedFields(cc) \subseteq {<<"subject", cc.subject>>,
                                        <<"predicate", cc.predicate>>}
          /\ NamedFields(cc) /= {}
          /\ \A f \in NamedFields(cc) :
                f[2] \notin MappedSubjects \cup MappedPredicates
          /\ store = cc.before

C13_UnknownNameSeen ==
    /\ cc.outcome = "rejected"
    /\ cc.subject \in MappedSubjects
    /\ cc.predicate = "smells"
    /\ NamedFields(cc) = {<<"predicate", "smells">>}
    /\ store = cc.before

C15_ErrorNamesBothFields ==
    (cc.outcome = "rejected" /\ cc.subject \notin MappedSubjects
     /\ cc.predicate \notin MappedPredicates)
    => NamedFields(cc) = {<<"subject", cc.subject>>,
                          <<"predicate", cc.predicate>>}

\* C23: mapSubject is deterministic and draws on nothing outside its
\* argument: a call and the call made right after it with the same field
\* name return the same path expression, and neither draws a uuid().
C23_MapperDeterministic ==
    \A s \in SubjectNames :
        LET first == mapSubject(uuidCtr, s)
            second == mapSubject(uuidCtr + first.used, s)
        IN  /\ first.used = 0
            /\ second.path = first.path
            /\ second.facts = first.facts

\* the list nodes that have a fact in the store
ListNodes == {t[1] : t \in {x \in store : x[1][1] = "list"}}

\* the sequences createListQuery is given: the multi-hop paths of mapSubject
ListInputs ==
    {<<Term("ext:zitting")>>,
     <<Term("ext:zitting"), Term("prov:atLocation")>>,
     <<Term("ext:zitting"), Term("besluit:isGehoudenDoor"),
       Term("besluit:bestuurt"), Term("skos:prefLabel")>>}

\* C25: createListQuery on n >= 1 items makes n nodes that the store has
\* no fact about, node i with item i as its first and node i+1 as its rest,
\* the last with rdf:nil; and in every store state a list node has one
\* first, one rest and at most one fact pointing to it, so it is in one
\* chain and no later write has touched it.
C25_ChainsFreshAndDisjoint ==
    /\ \A items \in ListInputs :
           LET l == createListQuery(uuidCtr, items)
               n == Len(items)
               node(k) == listURI(uuidCtr + k)
           IN  /\ l.used = n
               /\ l.root = node(1)
               /\ {t[1] : t \in l.facts} = {node(k) : k \in 1..n}
               /\ Cardinality({node(k) : k \in 1..n}) = n
               /\ {node(k) : k \in 1..n} \cap ListNodes = {}
               /\ l.facts =
                    {<<node(k), "rdf:first", items[k]>> : k \in 1..n}
                    \cup {<<node(k), "rdf:rest", node(k + 1)>> : k \in 1..(n - 1)}
                    \cup {<<node(n), "rdf:rest", RdfNil>>}
    /\ \A n \in ListNodes :
           /\ Cardinality(Objects(n, "rdf:first")) = 1
           /\ Cardinality(Objects(n, "rdf:rest")) = 1
           /\ Objects(n, "rdf:rest") \subseteq ListNodes \cup {RdfNil}
           /\ Cardinality({t \in store : t[3] = n}) <= 1

\* two chains are in the store: the chain of a constraint that has been
\* deleted and the chain of the constraint made after it
C25_TwoChainsStored ==
    /\ cc.outcome = "resolved"
    /\ Cardinality(ListNodes) = 4
    /\ Cardinality({n \in ListNodes : Objects(n, "rdf:rest") = {RdfNil}}) = 2
    /\ Cardinality({n \in ListNodes : \A t \in store : t[3] /= n}) = 1

----------------------------------------------------------------------------
(* Subscribers listing their filters, and deletions, on a populated store *)

\* the rows of SELECT ?filterUri WHERE { ?user account:password "<token>";
\* ext:hasSubscription ?filterUri }: one row for every user and edge
SubscriptionRows(token) ==
    {<<e[1], e[3]>> :
        e \in {x \in store : /\ x[2] = "ext:hasSubscription"
                             /\ <<x[1], "account:password", TokenLit(token)>>
                                    \in store}}

NoListing == [diverges |-> FALSE, filters |-> <<>>]

\* findFiltersForToken(token): every value it can return.  The rows come in
\* the order the store lists them, findFilter is called on the filter of
\* every row, and the promise settles when all of these calls have settled.
findFiltersForToken(token) ==
    UNION {{IF \E i \in 1..Len(fs) : fs[i].diverges
            THEN [NoListing EXCEPT !.diverges = TRUE]
            ELSE [NoListing EXCEPT !.filters = fs]
            : fs \in SeqChoices([i \in 1..Len(o) |->
                                    findFilter(o[i][2], MaxFilter)])}
           : o \in Orderings(SubscriptionRows(token))}

\* the data member of the answer of GET /subscription-filters: the filters
\* that were found, with their id, require-all and the ids of their
\* constraints
FiltersJSONAPI(filters) ==
    LET found == SelectSeq(filters, IsFound)
    IN  [i \in 1..Len(found) |->
            [id |-> found[i].id, requireAll |-> found[i].requireAll,
             constraints |-> [j \in 1..Len(found[i].constraints) |->
                                found[i].constraints[j].id]]]

\* GET /subscription-filters?token=<token>
GetSubscriptionFilters(hasToken, token) ==
    LET r0 == [NoRequest EXCEPT !.kind = "GET", !.hasToken = hasToken,
                                !.token = token, !.before = store]
    IN  IF ~hasToken
        THEN lastReq' = [r0 EXCEPT !.status = 400, !.message = "Missing token."]
        ELSE \E r \in findFiltersForToken(token) :
                lastReq' =
                    IF r.diverges THEN [r0 EXCEPT !.diverges = TRUE]
                    ELSE [r0 EXCEPT !.status = 200, !.filters = r.filters,
                                    !.data = FiltersJSONAPI(r.filters)]

\* DELETE /subscription-filters/<id>: 404 when no filter has the id, else the
\* filter is deleted and the answer is 204
DeleteSubscriptionFilter(id) ==
    LET r0 == [NoRequest EXCEPT !.kind = "DELETE", !.uri = filterURI(id),
                                !.before = store]
    IN  IF ~existsFilter(filterURI(id))
        THEN /\ lastReq' = [r0 EXCEPT !.status = 404, !.message = "NotFound"]
             /\ UNCHANGED store
        ELSE /\ deleteFilter(filterURI(id))
             /\ lastReq' = [r0 EXCEPT !.status = 204]

\* two constraints, the filter 1 = all of (constraint 1), the filter
\* 2 = any of (constraint 2, filter 1), and two subscribers that
\* addSubscription has made: the first holds filter 2, the second filter 1
InitAccount ==
    LET list1 == createListQuery(0, <<constraintURI(1)>>)
        list2 == createListQuery(list1.used,
                                 <<constraintURI(2), filterURI(1)>>)
        u == list1.used + list2.used
    IN  /\ store = ConstraintFacts(constraintURI(1), "title", "exists", "",
                                   mapSubject(0, "title"))
                    \cup ConstraintFacts(constraintURI(2), "description",
                                         "exists", "",
                                         mapSubject(0, "description"))
                    \cup FilterFacts(filterURI(1), TRUE, list1)
                    \cup FilterFacts(filterURI(2), FALSE, list2)
                    \cup UserFacts(freshURI("users", u + 1), 1, u + 2)
                    \cup UserFacts(freshURI("users", u + 4), 2, u + 5)
                    \cup {<<freshURI("users", u + 1), "ext:hasSubscription",
                            filterURI(2)>>,
                          <<freshURI("users", u + 4), "ext:hasSubscription",
                            filterURI(1)>>}
        /\ uuidCtr = u + 6
        /\ mailbox = {<<1, u + 2>>, <<2, u + 5>>}
        /\ cf = [w \in Callers |-> IdleCall]
        /\ rp = [w \in Callers |-> IdleReplace]
        /\ rd = NoRead
        /\ sub = [w \in Callers |-> IdleSub]
        /\ net = {}
        /\ post = IdlePost
        /\ cc = NoConstraintCall
        /\ codec = IdleCodec
        /\ lastReq = NoRequest

\* the tokens a request carries: a token no user has, and passwords of users
Tokens == {0} \cup {t[3][2] : t \in {x \in store : x[2] = "account:password"}}

AccountSubscribe ==
    /\ \E id \in FilterIds, e \in Emails : addSubscription(1, filterURI(id), e)
    /\ lastReq' = NoRequest
    /\ UNCHANGED <<cf, rp, rd, post, cc, codec>>

AccountAnswers ==
    /\ \/ AnswerUserLookup(1)
       \/ \E m \in net : \/ ApplyUserInsert(m)
                         \/ ApplyEdgeInsert(m)
                         \/ ApplyMailInsert(m)
    /\ lastReq' = NoRequest
    /\ UNCHANGED <<cf, rp, rd, post, cc, codec>>

AccountDeleteConstraint ==
    /\ \E id \in ConstraintIds :
            /\ deleteConstraint(constraintURI(id))
            /\ lastReq' = [NoRequest EXCEPT !.kind = "deleteConstraint",
                                            !.uri = constraintURI(id),
                                            !.before = store]
    /\ UNCHANGED <<uuidCtr, mailbox, cf, rp, rd, sub, net, post, cc, codec>>

AccountDeleteFilter ==
    /\ \E id \in FilterIds :
            /\ deleteFilter(filterURI(id))
            /\ lastReq' = [NoRequest EXCEPT !.kind = "deleteFilter",
                                            !.uri = filterURI(id),
                                            !.before = store]
    /\ UNCHANGED <<uuidCtr, mailbox, cf, rp, rd, sub, net, post, cc, codec>>

AccountDelete ==
    /\ \E id \in FilterIds : DeleteSubscriptionFilter(id)
    /\ UNCHANGED <<uuidCtr, mailbox, cf, rp, rd, sub, net, post, cc, codec>>

AccountGet ==
    /\ \E hasToken \in BOOLEAN, token \in Tokens :
            GetSubscriptionFilters(hasToken, token)
    /\ UNCHANGED <<store, uuidCtr, mailbox, cf, rp, rd, sub, net, post, cc,
                   codec>>

NextAccount ==
    \/ AccountSubscribe
    \/ AccountAnswers
    \/ AccountDeleteConstraint
    \/ AccountDeleteFilter
    \/ AccountDelete
    \/ AccountGet

SpecAccount == InitAccount /\ [][NextAccount]_vars

\* C12: deleteConstraint(id) and deleteFilter(id) remove the facts whose
\* subject is id and no other fact: the chain the resource pointed to, the
\* chains of other filters that list id, and the hasSubscription edges to id
\* stay in the store.
C12_DeleteRemovesOwnFactsOnly ==
    lastReq.kind \in {"deleteConstraint", "deleteFilter"}
    => /\ \A t \in store : t \in lastReq.before /\ t[1] /= lastReq.uri
       /\ \A t \in lastReq.before : t[1] /= lastReq.uri => t \in store

\* filter 1 has been deleted while filter 2 lists it and a subscriber holds
\* it: its own chain, the chain member of filter 2 and the edge are there
C12_OrphansRemain ==
    /\ lastReq.kind = "deleteFilter"
    /\ lastReq.uri = filterURI(1)
    /\ \E t \in lastReq.before : t[1] = filterURI(1) /\ t[2] = ShAnd
    /\ \A t \in store : t[1] /= filterURI(1)
    /\ <<listURI(1), "rdf:first", constraintURI(1)>> \in store
    /\ \E t \in store : t[2] = "rdf:first" /\ t[3] = filterURI(1)
    /\ \E t \in store : t[2] = "ext:hasSubscription" /\ t[3] = filterURI(1)

UsersWithToken(token) ==
    {t[1] : t \in {x \in store : /\ x[2] = "account:password"
                                 /\ x[3] = TokenLit(token)}}

\* C18: findFiltersForToken(token) returns the filters the subscriber with
\* that token holds a hasSubscription edge to and no filter held by another
\* subscriber only, each with its direct constraints and its sub-filters as
\* identifiers: no children of a sub-filter are loaded.
C18_ListingOneLevel ==
    (lastReq.kind = "GET" /\ lastReq.status = 200)
    => LET roots == SelectSeq(lastReq.filters, IsFound)
           owned == UNION {Objects(u, "ext:hasSubscription")
                           : u \in UsersWithToken(lastReq.token)}
       IN  /\ {filterURI(roots[i].id) : i \in 1..Len(roots)}
                = {f \in owned : Objects(f, ShAnd) \cup Objects(f, ShOr) /= {}}
           /\ \A i \in 1..Len(roots) :
                \A j \in 1..Len(roots[i].subFilters) :
                    /\ roots[i].subFilters[j].constraints = <<>>
                    /\ roots[i].subFilters[j].subFilters = <<>>

\* C19: GET /subscription-filters with a token that no subscriber has is
\* answered 400 'User not found'; it is answered 200 only when a
\* subscriber has the token.
C19_UnknownTokenRejected ==
    (lastReq.kind = "GET" /\ lastReq.hasToken)
    => /\ UsersWithToken(lastReq.token) = {}
          => lastReq.status = 400 /\ lastReq.message = "User not found"
       /\ lastReq.status = 200 => UsersWithToken(lastReq.token) /= {}

\* the references in the chain of the combinator a filter was loaded with
LoadedFrom(f) == Solutions(filterURI(f.id), AndOr(f.requireAll))

\* C26: every reference in the child chain of a loaded filter is in exactly
\* one of the lists 'constraints' and 'sub-filters' of the result: it
\* resolves as a constraint or as a filter, not as both, and the two lists
\* together have one entry for each reference, also after a child has been
\* deleted.
C26_EveryChildLoaded ==
    (lastReq.kind = "GET" /\ lastReq.status = 200)
    => \A i \in 1..Len(lastReq.filters) :
          LET f == lastReq.filters[i]
          IN  f.found
              => /\ Len(f.constraints) + Len(f.subFilters)
                        = Cardinality(LoadedFrom(f))
                 /\ \A x \in LoadedFrom(f) :
                        (\E c \in findConstraint(x[3]) : c.found)
                        /= (\E g \in findFilter(x[3], MaxFilter) : g.found)

=============================================================================
